---------------------------- MODULE Spec2Model ----------------------------
(***************************************************************************)
(* A model of fluent.runtime's resolver (fluent/runtime/resolver.py).      *)
(*                                                                         *)
(* resolve(context, message, args) is a recursive interpreter over a       *)
(* syntax tree.  The model runs it as a machine with an explicit call      *)
(* stack: ctl says what the interpreter is about to do (call handle on an  *)
(* expression, return a value to the caller, propagate an exception),      *)
(* stack holds the suspended callers, and the remaining variables are the  *)
(* fields of ResolverEnvironment.  Tail calls (return handle(...)) keep no *)
(* frame; a `with env.modified(...)` block, a for loop, and an argument    *)
(* that is still being evaluated do.                                       *)
(*                                                                         *)
(* A Python unicode string is a sequence of one-character strings, so that *)
(* concatenation, len() and slicing are those of the code.  Every Python   *)
(* value and every syntax node is a record with a field t, its type.       *)
(***************************************************************************)
EXTENDS Integers, Sequences, FiniteSets, TLC

VARIABLES
    context,      \* the bundle: which registry, the entry message's body, _use_isolating
    message,      \* resolve's parameter: the identifier of the message to resolve
    args,         \* resolve's parameter: the external arguments
    errors,       \* env.errors
    dirty,        \* env.dirty: identities of the patterns being resolved
    part_count,   \* env.part_count
    current,      \* env.current: [args, error_for_missing_arg]
    stack,        \* the suspended callers, innermost last
    ctl           \* what the interpreter does next: [mode, x]

vars == <<context, message, args, errors, dirty, part_count, current, stack, ctl>>

----------------------------------------------------------------------------
(* Program constants and model bounds *)

MAX_PART_LENGTH == 2500

MAX_PARTS == 1000

\* The longest body drawn for the generated entry message.
MaxElems == 2

\* The deepest call stack the model follows; a call at this depth is not made.
MaxDepth == 40

\* The longest variant list drawn for a direct call of the selectors.
MaxVariants == 2

FSI == <<"FSI">>
PDI == <<"PDI">>

----------------------------------------------------------------------------
(* Python values *)

PyStr(s) == [t |-> "str", v |-> s]
PyInt(n) == [t |-> "int", v |-> n]
PyDecimal(n) == [t |-> "Decimal", v |-> n]
\* an external argument of a type the resolver does not accept (a list, say)
Unsupported == [t |-> "list", v |-> 0]
PyNone == [t |-> "NoneType", v |-> 0]
\* FluentNone(name); name is the empty string when none is given
FluentNone(name) == [t |-> "FluentNone", v |-> name]

\* dict: a function from names (strings) to values
EmptyDict == [k \in {} |-> PyNone]

----------------------------------------------------------------------------
(* Syntax nodes (fluent.syntax.ast) *)

Identifier(name) == [t |-> "Identifier", name |-> name]
TextElement(value) == [t |-> "TextElement", value |-> value]
Placeable(expression) == [t |-> "Placeable", expression |-> expression]
StringLiteral(value) == [t |-> "StringLiteral", value |-> value]
NumberLiteral(value) == [t |-> "NumberLiteral", value |-> value]
VariableReference(name) == [t |-> "VariableReference", id |-> Identifier(name)]
MessageReference(name) == [t |-> "MessageReference", id |-> Identifier(name)]
TermReference(name) == [t |-> "TermReference", id |-> Identifier(name)]
AttributeExpression(ref, name) ==
    [t |-> "AttributeExpression", ref |-> ref, name |-> Identifier(name)]
VariantExpression(ref, key) ==
    [t |-> "VariantExpression", ref |-> ref, key |-> Identifier(key)]
Function(name) == [t |-> "Function", id |-> Identifier(name)]
NamedArgument(name, value) ==
    [t |-> "NamedArgument", name |-> Identifier(name), value |-> value]
CallExpression(callee, positional, named) ==
    [t |-> "CallExpression", callee |-> callee, positional |-> positional, named |-> named]
\* A Pattern has an identity (pid): the guard set holds patterns by identity.
Pattern(pid, elements) == [t |-> "Pattern", pid |-> pid, elements |-> elements]
Variant(key, value, default) ==
    [t |-> "Variant", key |-> key, value |-> value, default |-> default]
SelectExpression(selector, variants) ==
    [t |-> "SelectExpression", selector |-> selector, variants |-> variants]
VariantList(variants) == [t |-> "VariantList", variants |-> variants]
Message(value) == [t |-> "Message", value |-> value]
Term(value) == [t |-> "Term", value |-> value]
Attribute(value) == [t |-> "Attribute", value |-> value]

----------------------------------------------------------------------------
(* The collaborators the resolver calls: fluent.runtime.types, .utils and  *)
(* the bundle.                                                             *)

DigitChars == <<"0", "1", "2", "3", "4", "5", "6", "7", "8", "9">>

\* FluentNumber.format for the non-negative integers of the model: decimal digits
RECURSIVE format_number(_)
format_number(n) ==
    IF n < 10 THEN <<DigitChars[n + 1]>>
    ELSE format_number(n \div 10) \o <<DigitChars[(n % 10) + 1]>>

\* utils.numeric_to_native on an integer literal: the digits' value
RECURSIVE numeric_to_native_int(_, _)
numeric_to_native_int(val, acc) ==
    IF val = <<>> THEN acc
    ELSE numeric_to_native_int(Tail(val),
             acc * 10 + (CHOOSE d \in 0..9 : DigitChars[d + 1] = Head(val)))

numeric_to_native(val) == PyInt(numeric_to_native_int(val, 0))

\* FluentNone.format: the name it carries, or "???"
FluentNone_format(none) ==
    IF none.v # <<>> THEN none.v ELSE <<"?", "?", "?">>

\* utils.reference_to_id: an attribute's identifier is base.attribute
RECURSIVE reference_to_id(_)
reference_to_id(ref) ==
    IF ref.t = "AttributeExpression"
    THEN reference_to_id(ref.ref) \o <<".">> \o ref.name.name
    ELSE ref.id.name

\* context._plural_form: the English plural rule
plural_form(n) ==
    IF n.v = 1 THEN PyStr(<<"o", "n", "e">>) ELSE PyStr(<<"o", "t", "h", "e", "r">>)

\* Python's ==: numbers compare by value across int and Decimal, anything
\* else only with its own type
PyEq(a, b) ==
    IF a.t \in {"int", "Decimal"} /\ b.t \in {"int", "Decimal"} THEN a.v = b.v
    ELSE a.t = b.t /\ a.v = b.v

\* The diagnostics appended to env.errors
Error(type, msg, x) == [t |-> type, msg |-> msg, x |-> x]
unknown_reference_error_obj(ref_id) ==
    Error("FluentReferenceError", "Unknown reference", ref_id)

Exception(name) == [t |-> "Exception", v |-> <<name>>]

----------------------------------------------------------------------------
(* Selector matching and reference lookup: the parts of the resolver that  *)
(* call nothing that can re-enter a pattern.                               *)

\* handle() on a variant key: handle_indentifier or handle_number_expression
handle_key(key) ==
    IF key.t = "Identifier" THEN PyStr(key.name) ELSE numeric_to_native(key.value)

is_number(val) == val.t = "int"

RECURSIVE match(_, _)
match(val1, val2) ==
    IF val1.t \in {"NoneType", "FluentNone"} THEN FALSE
    ELSE IF val2.t \in {"NoneType", "FluentNone"} THEN FALSE
    ELSE IF is_number(val1) /\ ~is_number(val2) THEN PyEq(plural_form(val1), val2)
    ELSE IF ~is_number(val1) /\ is_number(val2) THEN match(val2, val1)
    ELSE PyEq(val1, val2)

\* `default` before the loop of select_from_variant_list assigns it
Unbound == [t |-> "unbound", v |-> 0]

\* the for loop of select_from_variant_list, from variant i on
RECURSIVE variant_list_loop(_, _, _, _)
variant_list_loop(variants, i, key, default) ==
    IF i > Len(variants) THEN [found |-> PyNone, default |-> default]
    ELSE LET variant == variants[i]
             d == IF variant.default THEN variant ELSE default
         IN  IF variant.default /\ key.t = "NoneType"
             THEN [found |-> PyNone, default |-> d]
             ELSE IF match(key, handle_key(variant.key))
                  THEN [found |-> variant, default |-> d]
                  ELSE variant_list_loop(variants, i + 1, key, d)

\* a variant of unknown_variant that forgets to look at the key
unknown_variant_any_key(found, key) == found.t = "NoneType"

\* whether select_from_variant_list reports the key as an unknown variant
unknown_variant(found, key) ==
    found.t = "NoneType" /\ key.t # "NoneType" /\ key.t # "FluentNone"

\* select_from_variant_list: the diagnostics it appends and how it ends
\* (a tail call of handle, a returned value or an exception)
select_from_variant_list(variant_list, key) ==
    LET r == variant_list_loop(variant_list.variants, 1, key, Unbound)
        errs == IF unknown_variant(r.found, key)
                THEN <<Error("FluentReferenceError", "Unknown variant", key.v)>>
                ELSE <<>>
        found == IF r.found.t = "NoneType" THEN r.default ELSE r.found
    IN  [errs |-> errs,
         ctl |-> IF found.t = "unbound"
                 THEN [mode |-> "raise", x |-> Exception("UnboundLocalError")]
                 ELSE IF found.t = "NoneType"
                      THEN [mode |-> "ret", x |-> FluentNone(<<>>)]
                      ELSE [mode |-> "eval", x |-> found.value]]

\* a variant of the loop without its break: the last match wins
RECURSIVE select_expression_loop_no_break(_, _, _, _)
select_expression_loop_no_break(variants, i, key, default) ==
    IF i > Len(variants) THEN [found |-> PyNone, default |-> default]
    ELSE LET variant == variants[i]
             d == IF variant.default THEN variant ELSE default
             rest == select_expression_loop_no_break(variants, i + 1, key, d)
         IN  IF match(key, handle_key(variant.key)) /\ rest.found.t = "NoneType"
             THEN [found |-> variant, default |-> d]
             ELSE rest

\* the for loop of select_from_select_expression, from variant i on
RECURSIVE select_expression_loop(_, _, _, _)
select_expression_loop(variants, i, key, default) ==
    IF i > Len(variants) THEN [found |-> PyNone, default |-> default]
    ELSE LET variant == variants[i]
             d == IF variant.default THEN variant ELSE default
         IN  IF match(key, handle_key(variant.key))
             THEN [found |-> variant, default |-> d]
             ELSE select_expression_loop(variants, i + 1, key, d)

\* select_from_select_expression: how it ends
select_from_select_expression(expression, key) ==
    LET r == select_expression_loop(expression.variants, 1, key, PyNone)
        found == IF r.found.t = "NoneType" THEN r.default ELSE r.found
    IN  IF found.t = "NoneType"
        THEN [mode |-> "ret", x |-> FluentNone(<<>>)]
        ELSE [mode |-> "eval", x |-> found.value]

\* a variant of lookup_reference that reports the failed fallback as well
lookup_reference_double_report(ref, messages_and_terms) ==
    LET ref_id == reference_to_id(ref)
    IN  IF ref_id \in DOMAIN messages_and_terms
        THEN [node |-> messages_and_terms[ref_id], errs |-> <<>>]
        ELSE IF ref.t = "AttributeExpression"
        THEN IF reference_to_id(ref.ref) \in DOMAIN messages_and_terms
             THEN [node |-> messages_and_terms[reference_to_id(ref.ref)],
                   errs |-> <<unknown_reference_error_obj(ref_id)>>]
             ELSE [node |-> FluentNone(ref_id),
                   errs |-> <<unknown_reference_error_obj(ref_id),
                              unknown_reference_error_obj(reference_to_id(ref.ref))>>]
        ELSE [node |-> FluentNone(ref_id),
              errs |-> <<unknown_reference_error_obj(ref_id)>>]

\* lookup_reference: the node or placeholder it returns and the diagnostics
\* it appends
lookup_reference(ref, messages_and_terms) ==
    LET ref_id == reference_to_id(ref)
    IN  IF ref_id \in DOMAIN messages_and_terms
        THEN [node |-> messages_and_terms[ref_id], errs |-> <<>>]
        ELSE [node |-> IF ref.t = "AttributeExpression"
                          /\ reference_to_id(ref.ref) \in DOMAIN messages_and_terms
                       THEN messages_and_terms[reference_to_id(ref.ref)]
                       ELSE FluentNone(ref_id),
              errs |-> <<unknown_reference_error_obj(ref_id)>>]

----------------------------------------------------------------------------
(* The bundles resolve is run on.  Message m is the generated entry        *)
(* message: its body is drawn from Elems.  The other entries are fixed.    *)

Text(c) == TextElement(<<c>>)
Num(c) == NumberLiteral(<<c>>)
Msg(c) == MessageReference(<<c>>)
TermRef(c) == TermReference(<<"-", c>>)
Var(c) == VariableReference(<<c>>)
Key(c) == Identifier(<<c>>)
other == <<"o", "t", "h", "e", "r">>

\* { $x -> [5] f *[other] o }
SelectOnX ==
    SelectExpression(Var("x"),
        <<Variant(Num("5"), Pattern("ps5", <<Text("f")>>), FALSE),
          Variant(Identifier(other), Pattern("pso", <<Text("o")>>), TRUE)>>)

\* The elements a generated body is made of
Elems ==
    << Text("a"),
       Placeable(Msg("m")),
       Placeable(Msg("n")),
       Placeable(Msg("k")),
       Placeable(AttributeExpression(Msg("k"), <<"b">>)),
       Placeable(TermRef("t")),
       Placeable(CallExpression(TermRef("t"), <<>>, <<NamedArgument(<<"x">>, Num("1"))>>)),
       Placeable(Var("x")),
       Placeable(TermRef("z")),
       Placeable(VariantExpression(TermRef("v"), <<"c">>)),
       Placeable(SelectOnX),
       Placeable(TermRef("u")) >>

\* A run of n text elements, a b a b ...
Texts(n) == [i \in 1..n |-> Text(IF i % 2 = 1 THEN "a" ELSE "b")]

\* -v = { [a] A *[b] B }
TermV ==
    Term(VariantList(
        <<Variant(Key("a"), Pattern("pva", <<Text("A")>>), FALSE),
          Variant(Key("b"), Pattern("pvb", <<Text("B")>>), TRUE)>>))

\* -w = { [a] A }: a variant list built without a default variant
TermW ==
    Term(VariantList(<<Variant(Key("a"), Pattern("pwa", <<Text("A")>>), FALSE)>>))

\* j1 = { q }{ q.a }{ k.a }{ F() }{ 7 }{ "s" }{ -v }{ -v[a] }
BodyJ1 ==
    << Placeable(Msg("q")),
       Placeable(AttributeExpression(Msg("q"), <<"a">>)),
       Placeable(AttributeExpression(Msg("k"), <<"a">>)),
       Placeable(CallExpression(Function(<<"F">>), <<Num("1")>>, <<>>)),
       Placeable(Num("7")),
       Placeable(StringLiteral(<<"s">>)),
       Placeable(TermRef("v")),
       Placeable(VariantExpression(TermRef("v"), <<"a">>)) >>

\* j2 = { -w[c] }x     j3 = { -t[a] }x     j4 = { -w }x
BodyJ2 == << Placeable(VariantExpression(TermRef("w"), <<"c">>)), Text("x") >>
BodyJ3 == << Placeable(VariantExpression(TermRef("t"), <<"a">>)), Text("x") >>
BodyJ4 == << Placeable(TermRef("w")), Text("x") >>

\* j5 = { -t(k, k, x: $x) }{ -t.a(x: 2) }{ $x }
BodyJ5 ==
    << Placeable(CallExpression(TermRef("t"), <<Msg("k"), Msg("k")>>,
                                <<NamedArgument(<<"x">>, Var("x"))>>)),
       Placeable(CallExpression(AttributeExpression(TermRef("t"), <<"a">>), <<>>,
                                <<NamedArgument(<<"x">>, Num("2"))>>)),
       Placeable(Var("x")) >>

\* j6 = { $x -> [a] A }{ 1 -> [one] I *[other] O }{ k -> [k] K *[a] A }
BodyJ6 ==
    << Placeable(SelectExpression(Var("x"),
           <<Variant(Key("a"), Pattern("p6a", <<Text("A")>>), FALSE)>>)),
       Placeable(SelectExpression(Num("1"),
           <<Variant(Identifier(<<"o", "n", "e">>), Pattern("p6i", <<Text("I")>>), FALSE),
             Variant(Identifier(other), Pattern("p6o", <<Text("O")>>), TRUE)>>)),
       Placeable(SelectExpression(Msg("k"),
           <<Variant(Key("k"), Pattern("p6k", <<Text("K")>>), FALSE),
             Variant(Key("a"), Pattern("p6d", <<Text("A")>>), TRUE)>>)) >>

\* Bodies that reach the part limit
\* b1: MAX_PARTS + 1 text elements
BodyB1 == Texts(MAX_PARTS + 1)
\* b2: the limit is crossed inside the pattern of c, two levels down
BodyB2 == Texts(MAX_PARTS - 2) \o <<Placeable(Msg("c")), Text("y"), Placeable(Msg("k"))>>
\* b3: the limit is crossed in the first argument of a call
BodyB3 ==
    Texts(MAX_PARTS - 1)
        \o <<Placeable(CallExpression(TermRef("t"), <<Msg("k"), Msg("k")>>, <<>>)), Text("y")>>
\* b4: exactly MAX_PARTS elements, the last one a reference
BodyB4 == Texts(MAX_PARTS - 1) \o <<Placeable(Msg("e"))>>

FixedEntries ==
    (<<"n">> :> Message(Pattern("pn", <<Text("n"), Placeable(Msg("m"))>>)))
    @@ (<<"k">> :> Message(Pattern("pk", <<Text("k")>>)))
    @@ (<<"k", ".", "a">> :> Attribute(Pattern("pka", <<Text("A")>>)))
    @@ (<<"c">> :> Message(Pattern("pc", <<Text("c"), Text("d"), Text("e")>>)))
    @@ (<<"e">> :> Message(Pattern("pe", <<>>)))
    @@ (<<"-", "t">> :> Term(Pattern("pt", <<Placeable(Var("x"))>>)))
    @@ (<<"-", "u">> :> Term(Pattern("pu", <<Placeable(Var("x")), Placeable(Msg("m"))>>)))
    @@ (<<"-", "v">> :> TermV)
    @@ (<<"-", "w">> :> TermW)
    @@ (<<"j", "1">> :> Message(Pattern("pj1", BodyJ1)))
    @@ (<<"j", "2">> :> Message(Pattern("pj2", BodyJ2)))
    @@ (<<"j", "3">> :> Message(Pattern("pj3", BodyJ3)))
    @@ (<<"j", "4">> :> Message(Pattern("pj4", BodyJ4)))
    @@ (<<"j", "5">> :> Message(Pattern("pj5", BodyJ5)))
    @@ (<<"j", "6">> :> Message(Pattern("pj6", BodyJ6)))
    @@ (<<"b", "1">> :> Message(Pattern("pb1", BodyB1)))
    @@ (<<"b", "2">> :> Message(Pattern("pb2", BodyB2)))
    @@ (<<"b", "3">> :> Message(Pattern("pb3", BodyB3)))
    @@ (<<"b", "4">> :> Message(Pattern("pb4", BodyB4)))

\* -z is registered without a body (value None)
AbsentEntries == (<<"-", "z">> :> Term(PyNone))

\* The body of the generated message m
GeneratedBody(ctx) == [i \in 1..Len(ctx.m) |-> Elems[ctx.m[i]]]

\* context._messages_and_terms
messages_and_terms(ctx) ==
    (<<"m">> :> Message(Pattern("pm", GeneratedBody(ctx))))
    @@ FixedEntries
    @@ (IF ctx.bundle = "absent" THEN AbsentEntries ELSE <<>>)

----------------------------------------------------------------------------
(* The interpreter's control state *)

Eval(x) == [mode |-> "eval", x |-> x]
Ret(x) == [mode |-> "ret", x |-> x]
Raise(name) == [mode |-> "raise", x |-> Exception(name)]
AtFor == [mode |-> "for", x |-> PyNone]
AtCall == [mode |-> "call", x |-> PyNone]

Top == stack[Len(stack)]
Pop == SubSeq(stack, 1, Len(stack) - 1)
ReplaceTop(frame) == [stack EXCEPT ![Len(stack)] = frame]
\* a call is made only while the stack is below the depth the model follows
CanCall == Len(stack) < MaxDepth

Running == ctl.mode \notin {"returned", "raised"}
Evaluating(type) == ctl.mode = "eval" /\ ctl.x.t = type
Returning(frame) == ctl.mode = "ret" /\ stack # <<>> /\ Top.t = frame

\* CurrentEnvironment
CurrentEnvironment(a, error_for_missing_arg) ==
    [args |-> a, error_for_missing_arg |-> error_for_missing_arg]

\* a variant of modified_for_term_reference that keeps reporting missing
\* arguments
modified_for_term_reference_reporting(a) == CurrentEnvironment(a, TRUE)

\* ResolverEnvironment.modified_for_term_reference: the replacement bindings
modified_for_term_reference(a) == CurrentEnvironment(a, FALSE)

\* ResolverEnvironment.modified, entered: the frame that remembers old_current
modified_enter(old_current) == [t |-> "modified", old_current |-> old_current]

\* ResolverEnvironment.modified, left by a return: env.current afterwards
modified_return(frame, cur) == frame.old_current

\* ResolverEnvironment.modified, left by an exception: the statement after
\* the yield is not run, env.current stays what the block made it
modified_raise(frame, cur) == cur

----------------------------------------------------------------------------
(* resolve: the state after the environment is constructed *)

Dict(name, value) == (<<name>> :> value)

ExternalArgs ==
    << EmptyDict,
       Dict("x", PyInt(5)),
       Dict("x", Unsupported),
       Dict("x", PyDecimal(5)),
       Dict("x", PyStr(<<"a">>)) >>

\* The bodies drawn for the generated message: sequences of indices into Elems
GeneratedBodies == UNION {[1..n -> 1..Len(Elems)] : n \in 1..MaxElems}

FixedMessages ==
    {<<"j", "1">>, <<"j", "2">>, <<"j", "3">>, <<"j", "4">>, <<"j", "5">>, <<"j", "6">>}

BigMessages == {<<"b", "1">>, <<"b", "2">>, <<"b", "3">>, <<"b", "4">>}

Context(bundle, m, use_isolating) ==
    [bundle |-> bundle, m |-> m, use_isolating |-> use_isolating]

\* The calls of resolve the model makes
Inputs ==
    {[context |-> Context(IF e \in {3, 4} THEN "absent" ELSE "full", m, e \in {2, 4}),
      message |-> <<"m">>,
      args |-> ExternalArgs[IF e = 4 THEN 1 ELSE e]] :
        m \in GeneratedBodies, e \in 1..4}
    \cup
    {[context |-> Context(b, <<1>>, iso), message |-> j, args |-> ExternalArgs[a]] :
        b \in {"full", "absent"}, iso \in BOOLEAN, j \in FixedMessages,
        a \in 1..Len(ExternalArgs)}
    \cup
    {[context |-> Context("full", <<1>>, iso), message |-> j, args |-> EmptyDict] :
        iso \in BOOLEAN, j \in BigMessages}

Init ==
    \E input \in Inputs :
        /\ context = input.context
        /\ message = input.message
        /\ args = input.args
        /\ errors = <<>>
        /\ dirty = {}
        /\ part_count = 0
        /\ current = CurrentEnvironment(input.args, TRUE)
        /\ stack = <<[t |-> "resolve"], [t |-> "fully_resolve"]>>
        /\ ctl = Eval(messages_and_terms(input.context)[input.message])

----------------------------------------------------------------------------
(* Handlers that return at once or tail-call handle *)

Inputs_unchanged == UNCHANGED <<context, message, args>>

handle_message ==
    /\ Evaluating("Message")
    /\ ctl' = Eval(ctl.x.value)
    /\ UNCHANGED <<errors, dirty, part_count, current, stack>>
    /\ Inputs_unchanged

handle_term ==
    /\ Evaluating("Term")
    /\ ctl' = Eval(ctl.x.value)
    /\ UNCHANGED <<errors, dirty, part_count, current, stack>>
    /\ Inputs_unchanged

handle_attribute ==
    /\ Evaluating("Attribute")
    /\ ctl' = Eval(ctl.x.value)
    /\ UNCHANGED <<errors, dirty, part_count, current, stack>>
    /\ Inputs_unchanged

handle_placeable ==
    /\ Evaluating("Placeable")
    /\ ctl' = Eval(ctl.x.expression)
    /\ UNCHANGED <<errors, dirty, part_count, current, stack>>
    /\ Inputs_unchanged

handle_string_expression ==
    /\ Evaluating("StringLiteral")
    /\ ctl' = Ret(PyStr(ctl.x.value))
    /\ UNCHANGED <<errors, dirty, part_count, current, stack>>
    /\ Inputs_unchanged

handle_number_expression ==
    /\ Evaluating("NumberLiteral")
    /\ ctl' = Ret(numeric_to_native(ctl.x.value))
    /\ UNCHANGED <<errors, dirty, part_count, current, stack>>
    /\ Inputs_unchanged

handle_fluent_none ==
    /\ Evaluating("FluentNone")
    /\ ctl' = Ret(PyStr(FluentNone_format(ctl.x)))
    /\ UNCHANGED <<errors, dirty, part_count, current, stack>>
    /\ Inputs_unchanged

handle_none ==
    /\ Evaluating("NoneType")
    /\ ctl' = Raise("LookupError")
    /\ UNCHANGED <<errors, dirty, part_count, current, stack>>
    /\ Inputs_unchanged

handle_int ==
    /\ Evaluating("int")
    /\ ctl' = Ret(PyStr(format_number(ctl.x.v)))
    /\ UNCHANGED <<errors, dirty, part_count, current, stack>>
    /\ Inputs_unchanged

handle_decimal ==
    /\ Evaluating("Decimal")
    /\ ctl' = Ret(PyStr(format_number(ctl.x.v)))
    /\ UNCHANGED <<errors, dirty, part_count, current, stack>>
    /\ Inputs_unchanged

\* fully_resolve, when handle has returned retval
fully_resolve ==
    /\ Returning("fully_resolve")
    /\ IF ctl.x.t = "str"
       THEN stack' = Pop /\ ctl' = ctl
       ELSE stack' = stack /\ ctl' = Eval(ctl.x)
    /\ UNCHANGED <<errors, dirty, part_count, current>>
    /\ Inputs_unchanged

\* resolve returns fully_resolve's string and the diagnostics
resolve_return ==
    /\ Returning("resolve")
    /\ stack' = <<>>
    /\ ctl' = [mode |-> "returned", x |-> ctl.x]
    /\ UNCHANGED <<errors, dirty, part_count, current>>
    /\ Inputs_unchanged

\* An exception leaves the innermost frame.  No frame of the resolver
\* catches one; a `with env.modified(...)` block is left without running
\* the statement after its yield.
propagate ==
    /\ ctl.mode = "raise"
    /\ stack # <<>>
    /\ stack' = Pop
    /\ ctl' = IF Len(stack) = 1 THEN [mode |-> "raised", x |-> ctl.x] ELSE ctl
    /\ current' = IF Top.t = "modified" THEN modified_raise(Top, current) ELSE current
    /\ UNCHANGED <<errors, dirty, part_count>>
    /\ Inputs_unchanged

----------------------------------------------------------------------------
(* handle_pattern *)

CyclicReference == Error("FluentCyclicReferenceError", "Cyclic reference", <<>>)
TooManyParts == Error("ValueError", "Too many parts in message", <<>>)
TooManyCharacters == Error("ValueError", "Too many characters in part", <<>>)

\* a variant of the cyclic check that never finds the pattern
in_dirty_never(pattern, d) == FALSE

\* a variant of dirty.add that leaves the set as it is
dirty_add_nothing(pattern, d) == d

\* a variant of dirty.remove that leaves the set as it is
dirty_remove_nothing(pattern, d) == d

\* `pattern in env.dirty`
in_dirty(pattern, d) == pattern.pid \in d

\* env.dirty.add(pattern)
dirty_add(pattern, d) == d \cup {pattern.pid}

\* env.dirty.remove(pattern)
dirty_remove(pattern, d) == d \ {pattern.pid}

\* the frame of a handle_pattern call that is inside its for loop
PatternFrame(pattern, i, parts, use_isolating) ==
    [t |-> "handle_pattern", pattern |-> pattern, i |-> i, parts |-> parts,
     use_isolating |-> use_isolating]

\* whether the loop stops at an element that makes the count `count`
over_limit(count) == count > MAX_PARTS

\* a variant of the test for the first crossing that holds at every crossing
first_over_limit_every_time(count) == count > MAX_PARTS

\* whether that element is the one reported
first_over_limit(count) == count = MAX_PARTS + 1

\* handle_pattern is entered: the cyclic check, or the guard is taken
handle_pattern ==
    /\ Evaluating("Pattern")
    /\ IF in_dirty(ctl.x, dirty)
       THEN /\ errors' = Append(errors, CyclicReference)
            /\ ctl' = Ret(FluentNone(<<>>))
            /\ UNCHANGED <<dirty, stack>>
       ELSE /\ CanCall
            /\ dirty' = dirty_add(ctl.x, dirty)
            /\ stack' = Append(stack,
                   PatternFrame(ctl.x, 0, <<>>,
                                context.use_isolating /\ Len(ctl.x.elements) > 1))
            /\ ctl' = AtFor
            /\ UNCHANGED errors
    /\ UNCHANGED <<part_count, current>>
    /\ Inputs_unchanged

\* the end of handle_pattern: join, release the guard, return
\* (remove raises KeyError when the pattern is not in the set)
pattern_end(frame, parts) ==
    IF frame.pattern.pid \in dirty
    THEN /\ dirty' = dirty_remove(frame.pattern, dirty)
         /\ ctl' = Ret(PyStr(parts))
         /\ stack' = Pop
    ELSE /\ dirty' = dirty
         /\ ctl' = Raise("KeyError")
         /\ stack' = stack

\* one iteration of the for loop, up to its call of fully_resolve
handle_pattern_for ==
    /\ ctl.mode = "for"
    /\ Top.i < Len(Top.pattern.elements)
    /\ LET element == Top.pattern.elements[Top.i + 1]
           count == part_count + 1
       IN  /\ part_count' = count
           /\ IF over_limit(count)
              THEN /\ errors' = IF first_over_limit(count)
                                THEN Append(errors, TooManyParts) ELSE errors
                   /\ pattern_end(Top,
                          IF first_over_limit(count)
                          THEN Top.parts \o FluentNone_format(FluentNone(<<>>))
                          ELSE Top.parts)
              ELSE IF element.t = "TextElement"
              THEN /\ stack' = ReplaceTop([Top EXCEPT !.i = @ + 1,
                                                      !.parts = @ \o element.value])
                   /\ ctl' = ctl
                   /\ UNCHANGED <<errors, dirty>>
              ELSE /\ CanCall
                   /\ stack' = Append(ReplaceTop([Top EXCEPT !.i = @ + 1]),
                                      [t |-> "fully_resolve"])
                   /\ ctl' = Eval(element)
                   /\ UNCHANGED <<errors, dirty>>
    /\ UNCHANGED current
    /\ Inputs_unchanged

\* fully_resolve(element) has returned the part
handle_pattern_part ==
    /\ Returning("handle_pattern")
    /\ LET part == ctl.x.v
           long == Len(part) > MAX_PART_LENGTH
           kept == IF long THEN SubSeq(part, 1, MAX_PART_LENGTH) ELSE part
       IN  /\ errors' = IF long THEN Append(errors, TooManyCharacters) ELSE errors
           /\ stack' = ReplaceTop([Top EXCEPT !.parts =
                  IF Top.use_isolating THEN @ \o FSI \o kept \o PDI ELSE @ \o kept])
    /\ ctl' = AtFor
    /\ UNCHANGED <<dirty, part_count, current>>
    /\ Inputs_unchanged

\* the for loop has run out of elements
handle_pattern_return ==
    /\ ctl.mode = "for"
    /\ Top.i = Len(Top.pattern.elements)
    /\ pattern_end(Top, Top.parts)
    /\ UNCHANGED <<errors, part_count, current>>
    /\ Inputs_unchanged

----------------------------------------------------------------------------
(* References and variables *)

handle_message_reference ==
    /\ Evaluating("MessageReference")
    /\ LET r == lookup_reference(ctl.x, messages_and_terms(context))
       IN  /\ errors' = errors \o r.errs
           /\ ctl' = Eval(r.node)
    /\ UNCHANGED <<dirty, part_count, current, stack>>
    /\ Inputs_unchanged

handle_attribute_expression ==
    /\ Evaluating("AttributeExpression")
    /\ LET r == lookup_reference(ctl.x, messages_and_terms(context))
       IN  /\ errors' = errors \o r.errs
           /\ ctl' = Eval(r.node)
    /\ UNCHANGED <<dirty, part_count, current, stack>>
    /\ Inputs_unchanged

\* with env.modified_for_term_reference(): return handle(lookup_reference(...))
handle_term_reference ==
    /\ Evaluating("TermReference")
    /\ CanCall
    /\ stack' = Append(stack, modified_enter(current))
    /\ current' = modified_for_term_reference(EmptyDict)
    /\ LET r == lookup_reference(ctl.x, messages_and_terms(context))
       IN  /\ errors' = errors \o r.errs
           /\ ctl' = Eval(r.node)
    /\ UNCHANGED <<dirty, part_count>>
    /\ Inputs_unchanged

\* the with block of a term reference or term call is left by a return
modified_exit ==
    /\ Returning("modified")
    /\ current' = modified_return(Top, current)
    /\ stack' = Pop
    /\ ctl' = ctl
    /\ UNCHANGED <<errors, dirty, part_count>>
    /\ Inputs_unchanged

UnknownExternal(name) == Error("FluentReferenceError", "Unknown external", name)
UnsupportedExternal(name) == Error("TypeError", "Unsupported external type", name)

\* the diagnostics of a variable reference whose name is not bound
missing_arg_errors(name, cur) ==
    IF cur.error_for_missing_arg THEN <<UnknownExternal(name)>> ELSE <<>>

handle_variable_reference ==
    /\ Evaluating("VariableReference")
    /\ LET name == ctl.x.id.name
       IN  IF name \notin DOMAIN current.args
           THEN /\ errors' = errors \o missing_arg_errors(name, current)
                /\ ctl' = Ret(FluentNone(name))
           ELSE IF current.args[name].t \in {"int", "Decimal", "str"}
           THEN /\ errors' = errors
                /\ ctl' = Ret(current.args[name])
           ELSE /\ errors' = Append(errors, UnsupportedExternal(name))
                /\ ctl' = Ret(FluentNone(name))
    /\ UNCHANGED <<dirty, part_count, current, stack>>
    /\ Inputs_unchanged

----------------------------------------------------------------------------
(* Selectors *)

handle_variant_list ==
    /\ Evaluating("VariantList")
    /\ LET r == select_from_variant_list(ctl.x, PyNone)
       IN  /\ errors' = errors \o r.errs
           /\ ctl' = r.ctl
    /\ UNCHANGED <<dirty, part_count, current, stack>>
    /\ Inputs_unchanged

\* handle_select_expression calls handle on the selector
handle_select_expression ==
    /\ Evaluating("SelectExpression")
    /\ CanCall
    /\ stack' = Append(stack, [t |-> "handle_select_expression", expression |-> ctl.x])
    /\ ctl' = Eval(ctl.x.selector)
    /\ UNCHANGED <<errors, dirty, part_count, current>>
    /\ Inputs_unchanged

\* the selector's value is the key of select_from_select_expression
handle_select_expression_key ==
    /\ Returning("handle_select_expression")
    /\ ctl' = select_from_select_expression(Top.expression, ctl.x)
    /\ stack' = Pop
    /\ UNCHANGED <<errors, dirty, part_count, current>>
    /\ Inputs_unchanged

handle_variant_expression ==
    /\ Evaluating("VariantExpression")
    /\ LET l == lookup_reference(ctl.x.ref, messages_and_terms(context))
           r == select_from_variant_list(l.node.value, PyStr(ctl.x.key.name))
       IN  IF l.node.t = "FluentNone"
           THEN /\ errors' = errors \o l.errs
                /\ ctl' = Ret(l.node)
           ELSE IF l.node.value.t # "VariantList"
           THEN /\ errors' = errors \o l.errs
                /\ ctl' = Raise("AssertionError")
           ELSE /\ errors' = errors \o l.errs \o r.errs
                /\ ctl' = r.ctl
    /\ UNCHANGED <<dirty, part_count, current, stack>>
    /\ Inputs_unchanged

----------------------------------------------------------------------------
(* handle_call_expression *)

\* the argument expressions in the order they are evaluated
call_arguments(expression) ==
    expression.positional
        \o [i \in 1..Len(expression.named) |-> expression.named[i].value]

\* kwargs: the dict comprehension over expression.named (a later duplicate wins)
call_kwargs(expression, vals) ==
    LET named == expression.named
        np == Len(expression.positional)
        last(k) == CHOOSE i \in 1..Len(named) :
                       /\ named[i].name.name = k
                       /\ \A j \in (i + 1)..Len(named) : named[j].name.name # k
    IN  [k \in {named[i].name.name : i \in 1..Len(named)} |-> vals[np + last(k)]]

IgnoredPositional(ref_id) ==
    Error("FluentFormatError", "Ignored positional arguments passed to term", ref_id)
UnknownFunction(name) == Error("FluentReferenceError", "Unknown function", name)

handle_call_expression ==
    /\ Evaluating("CallExpression")
    /\ CanCall
    /\ stack' = Append(stack,
           [t |-> "handle_call_expression", expression |-> ctl.x, vals |-> <<>>])
    /\ ctl' = AtCall
    /\ UNCHANGED <<errors, dirty, part_count, current>>
    /\ Inputs_unchanged

\* the next argument is handed to handle
handle_call_expression_argument ==
    /\ ctl.mode = "call"
    /\ Len(Top.vals) < Len(call_arguments(Top.expression))
    /\ ctl' = Eval(call_arguments(Top.expression)[Len(Top.vals) + 1])
    /\ UNCHANGED <<errors, dirty, part_count, current, stack>>
    /\ Inputs_unchanged

\* handle has returned an argument's value
handle_call_expression_value ==
    /\ Returning("handle_call_expression")
    /\ stack' = ReplaceTop([Top EXCEPT !.vals = Append(@, ctl.x)])
    /\ ctl' = AtCall
    /\ UNCHANGED <<errors, dirty, part_count, current>>
    /\ Inputs_unchanged

\* the callee is a term or an attribute of one: its body is resolved with
\* the named arguments as bindings
handle_call_expression_term ==
    /\ ctl.mode = "call"
    /\ Len(Top.vals) = Len(call_arguments(Top.expression))
    /\ Top.expression.callee.t \in {"TermReference", "AttributeExpression"}
    /\ LET expression == Top.expression
           term == lookup_reference(expression.callee, messages_and_terms(context))
       IN  /\ errors' = errors \o term.errs
                  \o (IF expression.positional # <<>>
                      THEN <<IgnoredPositional(reference_to_id(expression.callee))>>
                      ELSE <<>>)
           /\ stack' = ReplaceTop(modified_enter(current))
           /\ current' = modified_for_term_reference(call_kwargs(expression, Top.vals))
           /\ ctl' = Eval(term.node)
    /\ UNCHANGED <<dirty, part_count>>
    /\ Inputs_unchanged

\* the callee is a function; the bundles of the model register none, so
\* the lookup in context._functions fails
handle_call_expression_function ==
    /\ ctl.mode = "call"
    /\ Len(Top.vals) = Len(call_arguments(Top.expression))
    /\ Top.expression.callee.t = "Function"
    /\ LET function_name == Top.expression.callee.id.name
       IN  /\ errors' = Append(errors, UnknownFunction(function_name))
           /\ ctl' = Ret(FluentNone(function_name \o <<"(", ")">>))
    /\ stack' = Pop
    /\ UNCHANGED <<dirty, part_count, current>>
    /\ Inputs_unchanged

----------------------------------------------------------------------------

Next ==
    \/ handle_message
    \/ handle_term
    \/ handle_attribute
    \/ handle_placeable
    \/ handle_string_expression
    \/ handle_number_expression
    \/ handle_fluent_none
    \/ handle_none
    \/ handle_int
    \/ handle_decimal
    \/ fully_resolve
    \/ resolve_return
    \/ propagate
    \/ handle_pattern
    \/ handle_pattern_for
    \/ handle_pattern_part
    \/ handle_pattern_return
    \/ handle_message_reference
    \/ handle_attribute_expression
    \/ handle_term_reference
    \/ modified_exit
    \/ handle_variable_reference
    \/ handle_variant_list
    \/ handle_select_expression
    \/ handle_select_expression_key
    \/ handle_variant_expression
    \/ handle_call_expression
    \/ handle_call_expression_argument
    \/ handle_call_expression_value
    \/ handle_call_expression_term
    \/ handle_call_expression_function

Spec == Init /\ [][Next]_vars

\* resolve is one sequential call: a step that can be taken is taken
FairSpec == Spec /\ WF_vars(Next)

----------------------------------------------------------------------------
(* The two selectors called on their own: select_from_variant_list and     *)
(* select_from_select_expression are functions of the variants and the    *)
(* key.  The call's arguments stay in the one frame of the stack, its     *)
(* outcome is in ctl and errors.                                          *)

\* The variants drawn: a key, a value pattern of its own, default or not
VariantKeys ==
    << Num("5"), Num("1"), Identifier(other), Identifier(<<"o", "n", "e">>), Key("a") >>

VariantPids == <<"v1", "v2", "v3", "v4">>

VariantChoices == {<<k, d>> : k \in 1..Len(VariantKeys), d \in BOOLEAN}

VariantsOf(choice) ==
    [i \in 1..Len(choice) |->
        Variant(VariantKeys[choice[i][1]],
                Pattern(VariantPids[i], <<Text("v")>>),
                choice[i][2])]

VariantLists ==
    {VariantsOf(c) : c \in UNION {[1..n -> VariantChoices] : n \in 0..MaxVariants}}

\* The keys select_from_variant_list is called with
VariantListKeys ==
    << PyNone, FluentNone(<<>>), FluentNone(<<"x">>), PyStr(<<"a">>), PyStr(<<"c">>),
       PyStr(other) >>

\* The values a selector evaluates to
SelectorKeys ==
    << PyInt(5), PyInt(1), PyDecimal(5), PyStr(<<"a">>), PyStr(other), FluentNone(<<"x">>) >>

SelectorCall(function, node, key) == [t |-> function, node |-> node, key |-> key]

SelectorCalls ==
    {SelectorCall("select_from_variant_list", VariantList(v), VariantListKeys[k]) :
        v \in VariantLists, k \in 1..Len(VariantListKeys)}
    \cup
    {SelectorCall("select_from_select_expression",
                  SelectExpression(Var("x"), v), SelectorKeys[k]) :
        v \in VariantLists, k \in 1..Len(SelectorKeys)}

SelectorInit ==
    \E call \in SelectorCalls :
        /\ context = Context("full", <<1>>, FALSE)
        /\ message = <<"k">>
        /\ args = EmptyDict
        /\ errors = <<>>
        /\ dirty = {}
        /\ part_count = 0
        /\ current = CurrentEnvironment(EmptyDict, TRUE)
        /\ stack = <<call>>
        /\ ctl = [mode |-> "select", x |-> PyNone]

select_from_variant_list_call ==
    /\ ctl.mode = "select"
    /\ Top.t = "select_from_variant_list"
    /\ LET r == select_from_variant_list(Top.node, Top.key)
       IN  /\ errors' = errors \o r.errs
           /\ ctl' = r.ctl
    /\ UNCHANGED <<dirty, part_count, current, stack>>
    /\ Inputs_unchanged

select_from_select_expression_call ==
    /\ ctl.mode = "select"
    /\ Top.t = "select_from_select_expression"
    /\ ctl' = select_from_select_expression(Top.node, Top.key)
    /\ UNCHANGED <<errors, dirty, part_count, current, stack>>
    /\ Inputs_unchanged

SelectorNext ==
    \/ select_from_variant_list_call
    \/ select_from_select_expression_call

SelectorSpec == SelectorInit /\ [][SelectorNext]_vars

----------------------------------------------------------------------------
(* What the properties below speak of *)

\* the diagnostics of one kind, in the order they were appended
Diagnostics(errs, msg) == SelectSeq(errs, LAMBDA e : e.msg = msg)

Count(errs, msg) == Len(Diagnostics(errs, msg))

\* the patterns whose handle_pattern call is on the call stack
PatternFrames == {k \in 1..Len(stack) : stack[k].t = "handle_pattern"}
PatternsInProgress == {stack[k].pattern.pid : k \in PatternFrames}

\* the with blocks of term references and term calls on the call stack
ModifiedFrames == {k \in 1..Len(stack) : stack[k].t = "modified"}

Raising == ctl.mode \in {"raise", "raised"}

\* every registered message, term and attribute has a body
AllBodiesPresent ==
    \A id \in DOMAIN messages_and_terms(context) :
        messages_and_terms(context)[id].value.t # "NoneType"

----------------------------------------------------------------------------
(* C1 *)

\* C1: when every registered message and term has a body, resolve never
\* raises: every data-level problem (among them a variant list in which no
\* variant matches and none is the default, and a variant expression on a
\* term whose body is no variant list) ends in a diagnostic and a
\* placeholder.
C1_NeverRaises == AllBodiesPresent => ~Raising

----------------------------------------------------------------------------
(* C2 *)

\* C2: when control leaves the with block of a term reference or term call,
\* by a return or by an exception, env.current is what it was when the
\* block was entered.
C2_BindingsRestored ==
    [][(stack # <<>> /\ Top.t = "modified" /\ Len(stack') < Len(stack))
           => current' = Top.old_current]_vars

----------------------------------------------------------------------------
(* C3 *)

\* the entry message is m and its body holds the reference { m }
DirectSelfReference ==
    /\ message = <<"m">>
    /\ \E i \in 1..Len(context.m) :
           /\ Elems[context.m[i]].t = "Placeable"
           /\ Elems[context.m[i]].expression.t = "MessageReference"
           /\ Elems[context.m[i]].expression.id.name = message

\* handle is called on a pattern whose resolution is in progress
Reentry == Evaluating("Pattern") /\ ctl.x.pid \in PatternsInProgress

----------------------------------------------------------------------------
(* C4 *)

TextsJoined(n) == [i \in 1..n |-> IF i % 2 = 1 THEN "a" ELSE "b"]

\* C4: the part counter is shared by all patterns of the call; "too many
\* parts" is appended exactly once, when the counter reaches MAX_PARTS + 1,
\* with one placeholder emitted there; after that no pattern on the stack
\* advances to a further element and a pattern entered later renders none.
\* A flat pattern of MAX_PARTS + 1 elements yields its first MAX_PARTS
\* elements and one placeholder.
C4_PartLimit ==
    /\ [](/\ Count(errors, "Too many parts in message")
               = IF part_count > MAX_PARTS THEN 1 ELSE 0
          /\ (ctl.mode = "returned" /\ message = <<"b", "1">>)
               => /\ ctl.x = PyStr(TextsJoined(MAX_PARTS) \o <<"?", "?", "?">>)
                  /\ errors = <<TooManyParts>>
          /\ (ctl.mode = "returned" /\ message = <<"b", "2">> /\ ~context.use_isolating)
               => ctl.x = PyStr(TextsJoined(MAX_PARTS - 2) \o <<"c">> \o <<"?", "?", "?">>)
          /\ (ctl.mode = "returned" /\ message = <<"b", "3">> /\ ~context.use_isolating)
               => ctl.x = PyStr(TextsJoined(MAX_PARTS - 1)))
    /\ [][/\ (part_count = MAX_PARTS /\ part_count' # part_count)
               => /\ errors' = Append(errors, TooManyParts)
                  /\ ctl' = Ret(PyStr(Top.parts \o <<"?", "?", "?">>))
          /\ part_count > MAX_PARTS
               => \A k \in 1..Len(stack') :
                      stack'[k].t = "handle_pattern"
                          => stack'[k].i = IF k <= Len(stack) THEN stack[k].i ELSE 0]_vars

\* the limit was crossed two patterns deep, the enclosing pattern has
\* stopped and the call has returned
C4_Witness ==
    /\ ctl.mode = "returned"
    /\ message = <<"b", "2">>
    /\ part_count > MAX_PARTS + 1
    /\ Count(errors, "Too many parts in message") = 1

----------------------------------------------------------------------------
(* C7 *)

MissingVariable ==
    Evaluating("VariableReference") /\ ctl.x.id.name \notin DOMAIN current.args

InTermBody == ModifiedFrames # {}

\* C7: a variable reference to a name absent from the current bindings
\* yields a placeholder carrying the name; it appends one "unknown
\* external" diagnostic under a top-level message's bindings and none in a
\* term's body, where the bindings are the call's named arguments (none for
\* a plain term reference) and error_for_missing_arg is false.
C7_MissingVariable ==
    [][/\ MissingVariable
            => /\ ctl' = Ret(FluentNone(ctl.x.id.name))
               /\ errors' = IF InTermBody THEN errors
                            ELSE Append(errors, UnknownExternal(ctl.x.id.name))
               /\ ~InTermBody => current = CurrentEnvironment(args, TRUE)
       /\ Cardinality(ModifiedFrames') > Cardinality(ModifiedFrames)
            => /\ ~current'.error_for_missing_arg
               /\ DOMAIN current'.args =
                      IF Evaluating("TermReference") THEN {}
                      ELSE {Top.expression.named[i].name.name :
                                i \in 1..Len(Top.expression.named)}]_vars

\* in a term's body, a reference to x, which the external arguments bind,
\* has evaluated to the placeholder without a diagnostic
C7_Witness ==
    /\ InTermBody
    /\ ctl = Ret(FluentNone(<<"x">>))
    /\ <<"x">> \in DOMAIN args
    /\ errors = <<>>

----------------------------------------------------------------------------
(* C8 *)

Registered(id) == id \in DOMAIN messages_and_terms(context)

\* the reference the next step hands to lookup_reference, if any
LookedUp ==
    IF ctl.mode = "eval"
       /\ ctl.x.t \in {"MessageReference", "TermReference", "AttributeExpression"}
    THEN <<ctl.x>>
    ELSE IF Evaluating("VariantExpression") THEN <<ctl.x.ref>>
    ELSE IF /\ ctl.mode = "call"
            /\ Len(Top.vals) = Len(call_arguments(Top.expression))
            /\ Top.expression.callee.t \in {"TermReference", "AttributeExpression"}
    THEN <<Top.expression.callee>>
    ELSE <<>>

\* what the lookup of ref is to return
LookupResult(ref) ==
    IF Registered(reference_to_id(ref)) THEN messages_and_terms(context)[reference_to_id(ref)]
    ELSE IF ref.t = "AttributeExpression" /\ Registered(reference_to_id(ref.ref))
    THEN messages_and_terms(context)[reference_to_id(ref.ref)]
    ELSE FluentNone(reference_to_id(ref))

\* C8: a lookup appends one "unknown reference" diagnostic, for the full
\* identifier, if that is not registered, and none otherwise; nothing else
\* appends one.  It returns the registered node, or for an attribute
\* reference the node of the base identifier, or a placeholder carrying
\* the full identifier.
C8_Lookup ==
    [][IF Len(LookedUp) = 0
       THEN Diagnostics(errors', "Unknown reference") = Diagnostics(errors, "Unknown reference")
       ELSE LET ref == LookedUp[1]
            IN  /\ Diagnostics(errors', "Unknown reference")
                     = Diagnostics(errors, "Unknown reference")
                         \o (IF Registered(reference_to_id(ref)) THEN <<>>
                             ELSE <<unknown_reference_error_obj(reference_to_id(ref))>>)
                /\ ~Evaluating("VariantExpression") => ctl' = Eval(LookupResult(ref))
                /\ (Evaluating("VariantExpression") /\ LookupResult(ref).t = "FluentNone")
                     => ctl' = Ret(LookupResult(ref))]_vars

\* k.b was looked up: one diagnostic, and the node of k is evaluated next
C8_Witness ==
    /\ ctl.mode = "eval"
    /\ ctl.x.t = "Message"
    /\ errors = <<unknown_reference_error_obj(<<"k", ".", "b">>)>>

----------------------------------------------------------------------------
(* C9 *)

Terminated == ctl.mode \in {"returned", "raised"}

\* C9: whatever the bundle, reference cycles included, and whatever the
\* arguments, the call of resolve ends, and no pattern is on the call stack
\* twice.
C9_Terminates ==
    /\ <>Terminated
    /\ [](\A j \in PatternFrames : \A k \in PatternFrames :
              stack[j].pattern.pid = stack[k].pattern.pid => j = k)

\* a call on a bundle with the cycle m -> n -> m has returned
C9_Witness ==
    /\ ctl.mode = "returned"
    /\ message = <<"m">>
    /\ \E i \in 1..Len(context.m) : context.m[i] = 3
    /\ Count(errors, "Cyclic reference") >= 1

----------------------------------------------------------------------------
(* C10 *)

----------------------------------------------------------------------------
(* C5 and C6: properties of the selectors called on their own *)

Called(function) ==
    /\ stack # <<>>
    /\ stack[1].t = function
    /\ ctl.mode # "select"

CalledVariants == stack[1].node.variants
CalledKey == stack[1].key

\* the variants whose key is the number n
NumericKeyAt(variants, n) ==
    {i \in 1..Len(variants) :
        /\ variants[i].key.t = "NumberLiteral"
        /\ numeric_to_native(variants[i].key.value).v = n}

\* the variants whose key is the plural category of n
PluralKeyAt(variants, n) ==
    {i \in 1..Len(variants) :
        /\ variants[i].key.t = "Identifier"
        /\ variants[i].key.name = plural_form(PyInt(n)).v}

ExplicitKey(key) == key.t \notin {"NoneType", "FluentNone"}

\* no variant matches the key
NoVariantMatches(variants, key) ==
    \A i \in 1..Len(variants) : ~match(key, handle_key(variants[i].key))

============================================================================
